---- MODULE Spec2Model ----
(***************************************************************************)
(* Box-constrained gradient descent as driven by                           *)
(* scripts/sigpy_gradient_descent.py.                                      *)
(*                                                                         *)
(* The script builds a least-squares gradient A^H(A x - y), a box          *)
(* constraint, and an optimizer object, and then runs                      *)
(*     while not alg.done(): alg.update()                                  *)
(* The gradient callable, the data simulation, the box and the driver loop *)
(* are the script's own code.  The optimizer object (its update and its    *)
(* stopping test) belongs to the numerical library; it is modelled here    *)
(* from the algorithm description of spec.md, section 4.1.                 *)
(*                                                                         *)
(* Numbers: the reals of the program are modelled by integers in units of  *)
(* 0.01 (the box 0.05 .. 0.8 is 5 .. 80, the value 1 is 100).  Every run   *)
(* of the model is an exact run of the algorithm on integer data.          *)
(***************************************************************************)
EXTENDS Integers, Sequences, FiniteSets, TLC

VARIABLES
    A,          \* the forward operator's matrix (line 28)
    y,          \* the observed data (line 31)
    x0,         \* the initial point as handed to the optimizer (lines 36, 44)
    alpha,      \* the step size (line 45)
    lower,      \* box bounds (line 34)
    upper,
    max_iter,   \* line 48
    tol,        \* line 49
    x,          \* alg.x, the current iterate
    iter,       \* alg.iter
    change,     \* <<>> before the first update, then <<||x_new - x||^2>>
    pc          \* position of the script: "loop" (line 51) or "exit"

config == <<A, y, x0, alpha, lower, upper, max_iter, tol>>
vars == <<A, y, x0, alpha, lower, upper, max_iter, tol, x, iter, change, pc>>

\* ------------------------------------------------------------------ bounds
\* ishape[0] of the script is 8; the model checks vectors of this length.
Dim == 2
\* max_iter of the script is 1000; the model draws max_iter from 0 .. MaxIter.
MaxIter == 3

\* -------------------------------------------------------- program constants
One == 100
BoxLower == 5
BoxUpper == 80

Idx == 1 .. Dim
Rows == 1 .. (2 * Dim)

\* ------------------------------------------------------------ vector algebra
RECURSIVE SumTo(_, _)
SumTo(f, n) == IF n = 0 THEN 0 ELSE f[n] + SumTo(f, n - 1)

VecSub(u, v) == [i \in DOMAIN u |-> u[i] - v[i]]

Scale(a, v) == [i \in DOMAIN v |-> a * v[i]]

NormSq(v) == SumTo([i \in Idx |-> v[i] * v[i]], Dim)

\* A.apply(v): matrix times vector.
A_apply(M, v) == [r \in Rows |-> SumTo([j \in Idx |-> M[r][j] * v[j]], Dim)]

\* A.H.apply(w): the adjoint of a real matrix is its transpose.
AH_apply(M, w) == [j \in Idx |-> SumTo([r \in Rows |-> M[r][j] * w[r]], 2 * Dim)]

\* ------------------------------------------------------------------ set-up
\* x = zeros(ishape); x[(1*n)//4 : (3*n)//4] = 1   (0-based half-open slice)
x_true == [i \in Idx |-> IF (Dim \div 4) <= i - 1 /\ i - 1 < (3 * Dim) \div 4
                         THEN One ELSE 0]

\* cp.random.rand(2n, n): a nondeterministic 2n x n matrix.  Four shapes stand
\* for the draw: zero, two stacked identities, all ones, first column only.
AMats ==
    { [r \in Rows |-> [j \in Idx |-> 0]],
      [r \in Rows |-> [j \in Idx |-> IF (r - 1) % Dim = j - 1 THEN 1 ELSE 0]],
      [r \in Rows |-> [j \in Idx |-> 1]],
      [r \in Rows |-> [j \in Idx |-> IF j = 1 THEN 1 ELSE 0]] }

\* cp.random.rand(*ishape) in the script; the optimizer accepts any point, so
\* the coordinates are drawn from below, inside and above the boxes used.
X0Vals == {-1000, 50, 200}

\* step sizes: 0 (the no-op scenario), and two positive steps
Alphas == {0, 1, 2}

\* boxes with lower <= upper: the script's, a wider one, a degenerate one
Boxes == { <<BoxLower, BoxUpper>>, <<0, One>>, <<50, 50>> }

\* tolerances: the script's 0, and two positive ones
Tols == {0, 1, 100}

\* ------------------------------------------------------------ the gradient
MyL2Gradient_sign(r) == AH_apply(A, [i \in Rows |-> A_apply(A, r)[i] + y[i]])

MyL2Gradient_noData(r) == AH_apply(A, A_apply(A, r))

\* MyL2Gradient.__call__: self._A.H.apply(self._A.apply(r) - self._y)
MyL2Gradient_call(r) == AH_apply(A, VecSub(A_apply(A, r), y))

\* --------------------------------------------------------------- the box
Min(a, b) == IF a <= b THEN a ELSE b
Max(a, b) == IF a >= b THEN a ELSE b

\* clip(v, lo, hi), elementwise
Clip(v, lo, hi) == Min(Max(v, lo), hi)

proxg_lowerOnly(a, v) == [i \in DOMAIN v |-> Max(v[i], lower)]

proxg_none(a, v) == v

\* proxg = sigpy.prox.BoxConstraint(ishape, lower, upper), called as
\* proxg(alpha, v): the projection onto the box, whatever alpha is.
proxg(a, v) == [i \in DOMAIN v |-> Clip(v[i], lower, upper)]

\* ------------------------------------------------------------ the optimizer
GradientMethod_step_noAlpha(v) == proxg(alpha, VecSub(v, MyL2Gradient_call(v)))

\* steps 1-3 of one iteration (accelerate = False):
\* g = gradf(x); x_unproj = x - alpha * g; x_new = proxg(x_unproj)
GradientMethod_step(v) ==
    proxg(alpha, VecSub(v, Scale(alpha, MyL2Gradient_call(v))))

\* "tolerance met": tol > 0 and the last update changed x by less than tol
TolMet == tol > 0 /\ change # <<>> /\ change[1] < tol * tol

done_changeLeTol ==
    iter >= max_iter \/ (change # <<>> /\ change[1] <= tol * tol)

\* alg.done()
done == iter >= max_iter \/ TolMet

\* alg.update(): steps 1-4, and the change the stopping rule looks at
update ==
    /\ x' = GradientMethod_step(x)
    /\ iter' = iter + 1
    /\ change' = <<NormSq(VecSub(GradientMethod_step(x), x))>>

\* --------------------------------------------------------------- the script
LoopCond_offByOne == iter <= max_iter /\ ~TolMet

LoopCond_doWhile == iter = 0 \/ ~done

LoopCond_maxOnly == iter < max_iter

\* while not alg.done():
LoopCond == ~done

Init ==
    /\ A \in AMats
    /\ y = A_apply(A, x_true)
    /\ x0 \in [Idx -> X0Vals]
    /\ alpha \in Alphas
    /\ \E b \in Boxes : lower = b[1] /\ upper = b[2]
    /\ max_iter \in 0 .. MaxIter
    /\ tol \in Tols
    /\ x = x0
    /\ iter = 0
    /\ change = <<>>
    /\ pc = "loop"

\* one pass of the loop body: print(alg.iter); print(alg.x); alg.update()
LoopUpdate ==
    /\ pc = "loop"
    /\ LoopCond
    /\ update
    /\ UNCHANGED <<config, pc>>

\* the loop condition fails: the script ends
LoopExit ==
    /\ pc = "loop"
    /\ ~LoopCond
    /\ pc' = "exit"
    /\ UNCHANGED <<config, x, iter, change>>

Next == LoopUpdate \/ LoopExit

Spec == Init /\ [][Next]_vars

\* The script is a single sequential loop: a step that can be taken is taken.
FairSpec == Init /\ [][Next]_vars /\ WF_vars(Next)

\* ================================================================== claims
\* The step as the claims state it, written out without the model's own
\* gradient, projection and step operators:
\* clip(v - step_size * A^H(A v - y), lower, upper), elementwise.
ClaimedGradient(v) ==
    [j \in Idx |->
        SumTo([r \in Rows |->
                 A[r][j] * (SumTo([k \in Idx |-> A[r][k] * v[k]], Dim) - y[r])],
              2 * Dim)]

ClaimedStep(v) ==
    [i \in Idx |->
        LET u == v[i] - alpha * ClaimedGradient(v)[i]
        IN  IF u < lower THEN lower ELSE IF u > upper THEN upper ELSE u]

\* every coordinate of v lies within [lower, upper]
InBox(v) == \A i \in Idx : lower <= v[i] /\ v[i] <= upper

ClippedX0 ==
    [i \in Idx |->
        IF x0[i] < lower THEN lower ELSE IF x0[i] > upper THEN upper ELSE x0[i]]

AllOutside == [i \in Idx |-> -1000]

\* C1 (projection invariant): once at least one update has been made, every
\* coordinate of the iterate x lies within [lower, upper], whatever x0, the
\* step size and the gradient were.
C1_ProjectionInvariant == iter >= 1 => InBox(x)

\* C1 witness: the boundary scenario, x0 all -10, box [0.05, 0.8], after
\* exactly one update of a run with a non-zero step and a non-zero gradient.
C1_Witness ==
    /\ iter = 1
    /\ x0 = AllOutside
    /\ lower = BoxLower /\ upper = BoxUpper
    /\ alpha > 0
    /\ ClaimedGradient(x0) # [i \in Idx |-> 0]
    /\ InBox(x)

\* C2 as claimed: whenever the optimizer is Done, the solution vector it
\* holds satisfies the box constraint, for every max_iter >= 0 and every x0.
C2_DoneInBox == done => InBox(x)

\* C2 amended: whenever the optimizer is Done and max_iter >= 1 (or x0 lay
\* within the box to begin with), the solution vector satisfies the box
\* constraint.
C2_DoneInBoxAfterUpdate ==
    (done /\ (max_iter >= 1 \/ InBox(x0))) => InBox(x)

\* C2 witness: a finished run with max_iter >= 1 that started outside the box.
C2_Witness ==
    /\ pc = "exit" /\ done
    /\ max_iter >= 1
    /\ ~InBox(x0)
    /\ InBox(x)

\* C3 (monotone counter): the iteration counter starts at 0, every update
\* (every step of the loop that stays in the loop) raises it by exactly 1,
\* leaving the loop does not change it, and it never exceeds max_iter.
C3_MonotoneCounter ==
    /\ iter = 0
    /\ [][ /\ (pc' = pc => iter' = iter + 1)
           /\ (pc' # pc => iter' = iter) ]_vars
    /\ [](iter \in 0 .. max_iter)

\* C3 witness: the counter has been raised MaxIter times and sits at max_iter.
C3_Witness == iter = MaxIter /\ max_iter = MaxIter /\ pc = "loop"

\* C4 (tol = 0): the loop terminates, the counter then equals max_iter
\* whatever the iterates did, and no update is made once the optimizer is
\* Done.
C4_RunsMaxIter ==
    /\ (tol = 0) ~> (pc = "exit" /\ iter = max_iter)
    /\ []((tol = 0 /\ pc = "exit") => iter = max_iter)
    /\ [][(tol = 0 /\ done) => (x' = x /\ iter' = iter /\ change' = change)]_vars

\* C4 witness: tol = 0, the iterate never changed (step size 0, x0 in the
\* box), and the loop still ran all MaxIter updates before it ended.
C4_Witness ==
    /\ pc = "exit"
    /\ tol = 0
    /\ alpha = 0 /\ InBox(x0) /\ x = x0
    /\ change = <<0>>
    /\ iter = max_iter /\ max_iter = MaxIter

\* C5 (stopping rule): Done holds exactly when the counter equals max_iter or
\* the tolerance is met, Running exactly when the counter is below max_iter
\* and the tolerance is not met; an update is only made in Running; with
\* tol > 0 an update that changes x by less than tol ends in Done.
C5_StoppingRule ==
    /\ [](done <=> (iter = max_iter \/ TolMet))
    /\ [](~done <=> (iter < max_iter /\ ~TolMet))
    /\ [][iter' # iter => ~done]_vars
    /\ [][(iter' = iter + 1 /\ tol > 0 /\ NormSq(VecSub(x', x)) < tol * tol)
            => done']_vars

\* C5 witness: a run with tol > 0 that ended on the tolerance, before the
\* counter reached max_iter.
C5_Witness ==
    /\ pc = "exit"
    /\ tol > 0 /\ TolMet
    /\ iter >= 1 /\ iter < max_iter

\* C6 (zero iterations): with max_iter = 0 the optimizer is Done from the
\* start, no update is ever made, and the solution vector stays x0.
C6_ZeroIterations == max_iter = 0 => (done /\ iter = 0 /\ x = x0 /\ change = <<>>)

\* C6 witness: a finished run with max_iter = 0 whose x0 is outside the box
\* and whose result is that x0.
C6_Witness ==
    /\ max_iter = 0 /\ pc = "exit"
    /\ ~InBox(x0)
    /\ x = x0

\* C7 (fixed point): if x = clip(x - step_size * gradient(x), lower, upper),
\* then every step leaves x unchanged, so x stays that fixed point through
\* every further update.
C7_FixedPoint ==
    [][x = ClaimedStep(x) => (x' = x /\ x' = ClaimedStep(x'))]_vars

\* C7 witness: an update has just been made from a fixed point (it changed
\* nothing) although the step size and the gradient there are non-zero.
C7_Witness ==
    /\ iter >= 2
    /\ change = <<0>>
    /\ x = ClaimedStep(x)
    /\ alpha > 0
    /\ ClaimedGradient(x) # [i \in Idx |-> 0]

\* C8 (step size 0): after the first update and after every later one the
\* iterate equals clip(x0, lower, upper), whatever the gradient is.
C8_ZeroStep == (alpha = 0 /\ iter >= 1) => x = ClippedX0

\* C8 witness: step size 0, x0 outside the box, a non-zero gradient, and at
\* least two updates made.
C8_Witness ==
    /\ alpha = 0
    /\ iter >= 2
    /\ ~InBox(x0)
    /\ ClaimedGradient(x) # [i \in Idx |-> 0]
    /\ x = ClippedX0

\* C9 (one update, accelerate = False): an update replaces x by exactly
\* clip(x - step_size * A^H(A x - y), lower, upper), a function of the current
\* x and of A, y, step_size and the bounds alone, and leaves A, y, step_size
\* and the bounds as they were.
C9_PlainUpdate ==
    [][iter' # iter =>
          /\ x' = ClaimedStep(x)
          /\ UNCHANGED <<A, y, alpha, lower, upper>>]_vars

\* C9 witness: a second update has moved x, with a non-zero step along a
\* non-zero gradient, to a point strictly inside the box in some coordinate.
C9_Witness ==
    /\ iter = 2
    /\ alpha > 0
    /\ change # <<>> /\ change[1] > 0
    /\ \E i \in Idx : lower < x[i] /\ x[i] < upper

====
